---- MODULE Spec2Model ----
(***************************************************************************)
(* Model of src/app.js of PWA-QR-Reader.                                   *)
(*                                                                         *)
(* Two independent state machines live in that file:                       *)
(*   - class QRCodeReader (lines 11-321): camera lifecycle and the         *)
(*     requestAnimationFrame scan loop.  Specification: Spec, and          *)
(*     SpecFair where the animation-frame callbacks run fairly.            *)
(*   - the service worker handlers (lines 347-456): install, activate,     *)
(*     fetch.  Specification: SpecSW.                                      *)
(*                                                                         *)
(* JavaScript runs each task to completion, so one action is one task:     *)
(* a click handler up to its first await, the continuation of a settled    *)
(* promise, one event dispatch, one animation-frame callback.              *)
(***************************************************************************)
EXTENDS Integers, Sequences, FiniteSets, Bags, TLC

(***************************************************************************)
(* Bounds of the exploration (not program constants).                      *)
(***************************************************************************)
MaxAcq == 2          \* getUserMedia calls that succeed
MaxPending == 2      \* getUserMedia calls in flight at once
MaxFrames == 9       \* executions of the body of scan()
MaxFetches == 1      \* fetch events being handled at once
MaxFairAcq == 1      \* sessions followed when callbacks run fairly

(***************************************************************************)
(* Program constants.                                                      *)
(***************************************************************************)
SamplePeriod == 3    \* app.js:163  frameCount % 3 === 0

NoStream == 0        \* null
Payloads == {"", "A"}                       \* values of code.data
Frames == {"nodata", "nocode"} \cup Payloads \* what a tick finds in the video
Errors == {"NotAllowedError", "NotFoundError"}
Facings == {"environment", "user"}

VARIABLES
    stream,        \* this.stream: NoStream or the handle held
    scanning,      \* this.scanning
    cameraActive,  \* this.cameraActive
    facingMode,    \* this.facingMode
    lastResult,    \* this.lastResult
    frameCount,    \* this.frameCount
    status,        \* the status event of the last step (showStatus)
    switchDisabled,\* switchCameraBtn.disabled as set by updateUI
    srcObject,     \* this.video.srcObject
    metaPending,   \* srcObject has not yet signalled loadedmetadata
    listeners,     \* registered once-listeners for loadedmetadata
    raf,           \* pending requestAnimationFrame callbacks
    pending,       \* bag of getUserMedia promises not yet settled
    acquired,      \* number of handles handed out so far
    live,          \* handles acquired whose tracks are not stopped
    returned,      \* history: the async call completed by the last step
    lastTick,      \* history: what the scan() calls of the last step did
    lastEmitted,   \* history: payload of the most recent result event
    tickNo,        \* history: executions of the body of scan() so far
    allReady,      \* history: every tick so far found a frame ready
    decodeTicks,   \* history: ticks on which jsQR was called, while allReady
    swState,       \* service worker lifecycle state
    cacheNames,    \* CacheStorage: store names in creation order
    entries,       \* CacheStorage: store name -> (request key -> body)
    skipWaitingCalled,
    installLog,    \* outcome of the install handler
    unreachable,   \* manifest URLs that failed during the install
    actPending,    \* caches.delete() calls not yet completed
    actDeleted,    \* history: names deleted by the activate handler
    actKeys,       \* history: names returned by caches.keys()
    actCurrent,    \* history: content of the current store at activate
    claimed,       \* self.clients.claim() was called
    fetches,       \* fetch events being handled
    unhandled      \* promise rejections nobody handled

ctlVars == <<stream, scanning, cameraActive, facingMode, lastResult,
             frameCount, status, switchDisabled, srcObject, metaPending,
             listeners, raf, pending, acquired, live, returned, lastTick,
             lastEmitted, tickNo, allReady, decodeTicks>>
swVars == <<swState, cacheNames, entries, skipWaitingCalled, installLog,
            unreachable, actPending, actDeleted, actKeys, actCurrent,
            claimed, fetches, unhandled>>
vars == <<ctlVars, swVars>>

(***************************************************************************)
(* QRCodeReader                                                            *)
(***************************************************************************)
NoReturn == [caller |-> "none", ok |-> TRUE, threw |-> FALSE,
             prevFacing |-> "environment", err |-> ""]
NoTick == [kind |-> "none", stale |-> FALSE, ran |-> 0, decoded |-> 0,
           resched |-> 0, calls |-> <<>>]

\* showStatus(message, type), lines 306-320: the status event handed to
\* the page (the controller never reads statusDiv back)
NoStatus == [message |-> "", detail |-> "", type |-> ""]
showStatus(message, detail, type) ==
    [message |-> message, detail |-> detail, type |-> type]

\* this.facingMode === 'environment' ? 'user' : 'environment'  (lines 80, 92)
Flip(f) == IF f = "environment" THEN "user" ELSE "environment"

\* handleQRCode(data), lines 201-215, on the loop record L
handleQRCodeAlways(L, data) ==
    [L EXCEPT !.lastResult = data,
              !.lastEmitted = data,
              !.status = showStatus("qrRead", "", "success"),
              !.calls = Append(@, [data |-> data, prev |-> L.lastEmitted,
                                   emitted |-> TRUE])]

handleQRCode(L, data) ==
    IF data = L.lastResult
    THEN [L EXCEPT !.calls = Append(@, [data |-> data,
                                        prev |-> L.lastEmitted,
                                        emitted |-> FALSE])]
    ELSE [L EXCEPT !.lastResult = data,
                   !.lastEmitted = data,
                   !.status = showStatus("qrRead", "", "success"),
                   !.calls = Append(@, [data |-> data, prev |-> L.lastEmitted,
                                        emitted |-> TRUE])]

\* the sampling test of line 163
SampledOffByOne(c) == c % SamplePeriod = 1

Sampled(c) == c % SamplePeriod = 0

\* scan(), lines 156-195, on the loop record L; frame is what the video
\* element and jsQR yield in this task
scanNoGuardWorkOnly(L, frame) ==
    LET c == L.frameCount + 1
        ready == L.allReady /\ frame # "nodata"
        L1 == [L EXCEPT !.frameCount = c, !.tickNo = @ + 1, !.ran = @ + 1,
                        !.allReady = ready,
                        !.decodeTicks = IF ready THEN @ ELSE {}]
        L2 == IF Sampled(c) /\ frame # "nodata"
              THEN LET L3 == [L1 EXCEPT
                                !.decodeTicks = IF ready
                                                THEN @ \cup {L1.tickNo}
                                                ELSE {},
                                !.decoded = @ + 1]
                   IN  IF frame # "nocode"
                       THEN handleQRCode(L3, frame)
                       ELSE L3
              ELSE L1
    IN  IF Sampled(c)
        THEN [L2 EXCEPT !.fresh = @ + 1, !.resched = @ + 1]
        ELSE L2

scanNoGuard(L, frame) ==
    LET c == L.frameCount + 1
        ready == L.allReady /\ frame # "nodata"
        L1 == [L EXCEPT !.frameCount = c, !.tickNo = @ + 1, !.ran = @ + 1,
                        !.allReady = ready,
                        !.decodeTicks = IF ready THEN @ ELSE {}]
        L2 == IF Sampled(c) /\ frame # "nodata"
              THEN LET L3 == [L1 EXCEPT
                                !.decodeTicks = IF ready
                                                THEN @ \cup {L1.tickNo}
                                                ELSE {},
                                !.decoded = @ + 1]
                   IN  IF frame # "nocode"
                       THEN handleQRCode(L3, frame)
                       ELSE L3
              ELSE L1
    IN  [L2 EXCEPT !.fresh = @ + 1, !.resched = @ + 1]

scan(L, frame) ==
    IF ~L.scanning \/ ~L.cameraActive
    THEN L
    ELSE scanNoGuard(L, frame)

\* startScanning(), lines 141-144
startScanningReset(L, frame) ==
    scan([L EXCEPT !.scanning = TRUE, !.frameCount = 0], frame)

startScanning(L, frame) == scan([L EXCEPT !.scanning = TRUE], frame)

\* the loop record of the current state
Loop == [scanning |-> scanning, cameraActive |-> cameraActive,
         frameCount |-> frameCount, lastResult |-> lastResult,
         lastEmitted |-> lastEmitted, status |-> NoStatus,
         fresh |-> raf.fresh, tickNo |-> tickNo,
         allReady |-> allReady, decodeTicks |-> decodeTicks,
         ran |-> 0, decoded |-> 0, resched |-> 0, calls |-> <<>>]

\* n listeners of loadedmetadata run one after the other (lines 114-118)
RECURSIVE RunListeners(_, _, _)
RunListeners(L, n, frame) ==
    IF n = 0 THEN L ELSE RunListeners(startScanning(L, frame), n - 1, frame)

\* write a loop record back; stale is the count of stale callbacks left
StoreLoop(L, kind, wasStale, stale) ==
    /\ scanning' = L.scanning
    /\ frameCount' = L.frameCount
    /\ lastResult' = L.lastResult
    /\ lastEmitted' = L.lastEmitted
    /\ status' = L.status
    /\ raf' = [fresh |-> L.fresh, stale |-> stale]
    /\ tickNo' = L.tickNo
    /\ allReady' = L.allReady
    /\ decodeTicks' = L.decodeTicks
    /\ lastTick' = [kind |-> kind, stale |-> wasStale, ran |-> L.ran,
                    decoded |-> L.decoded, resched |-> L.resched,
                    calls |-> L.calls]

\* the part of the state stopCamera() works on
Cam == [stream |-> stream, srcObject |-> srcObject,
        metaPending |-> metaPending, cameraActive |-> cameraActive,
        scanning |-> scanning, raf |-> raf, live |-> live]

\* the handles whose tracks a stopCamera() call on S stops (lines 129-130)
TracksStopped(S) == IF S.stream # NoStream THEN {S.stream} ELSE {}

\* stopCamera(), lines 128-136 (with stopScanning, lines 149-151), on the
\* record S.  The callbacks already handed to requestAnimationFrame stay
\* queued; they are marked stale here.
stopCameraKeepsHandle(S) ==
    [S EXCEPT !.live = @ \ TracksStopped(S),
              !.srcObject = NoStream,
              !.metaPending = FALSE,
              !.cameraActive = FALSE,
              !.scanning = FALSE,
              !.raf = [fresh |-> 0, stale |-> S.raf.stale + S.raf.fresh]]

stopCameraOn(S) ==
    [S EXCEPT !.live = @ \ TracksStopped(S),
              !.stream = NoStream,
              !.srcObject = NoStream,
              !.metaPending = FALSE,
              !.cameraActive = FALSE,
              !.scanning = FALSE,
              !.raf = [fresh |-> 0, stale |-> S.raf.stale + S.raf.fresh]]

\* a stopCamera() call in the current state
stopCamera ==
    LET S == stopCameraOn(Cam)
    IN  /\ live' = S.live
        /\ stream' = S.stream
        /\ srcObject' = S.srcObject
        /\ metaPending' = S.metaPending
        /\ cameraActive' = S.cameraActive
        /\ scanning' = S.scanning
        /\ raf' = S.raf

\* the getUserMedia calls startCamera() can have in flight: who awaits
\* them, the facing asked for, and facingMode before the caller changed it
Calls == [caller : {"toggle", "switch"}, prevFacing : Facings,
          facing : Facings]

\* startCamera() up to the await of line 109
startCamera(caller, prevFacing, facing) ==
    pending' = pending (+) SetToBag({[caller |-> caller,
                                      prevFacing |-> prevFacing,
                                      facing |-> facing]})

histQuiet == /\ returned' = NoReturn
             /\ lastTick' = NoTick
             /\ UNCHANGED <<lastEmitted, tickNo, allReady, decodeTicks>>

\* toggleCamera(), lines 51-68, up to its first await
ToggleCamera ==
    /\ IF cameraActive
       THEN /\ stopCamera
            /\ switchDisabled' = TRUE                        \* updateUI(false)
            /\ status' = showStatus("stopped", "", "")
            /\ UNCHANGED pending
       ELSE /\ BagCardinality(pending) < MaxPending
            /\ startCamera("toggle", facingMode, facingMode)
            /\ status' = NoStatus
            /\ UNCHANGED <<stream, srcObject, metaPending, cameraActive,
                           scanning, raf, live, switchDisabled>>
    /\ histQuiet
    /\ UNCHANGED <<facingMode, lastResult, frameCount, listeners, acquired>>
    /\ UNCHANGED swVars

\* switchCamera(), lines 73-94, up to its first await; the call that finds
\* no session returns at line 76 and is recorded as completed
SwitchCameraNoGuard ==
    /\ BagCardinality(pending) < MaxPending
    /\ facingMode' = Flip(facingMode)
    /\ stopCamera
    /\ startCamera("switch", facingMode, Flip(facingMode))
    /\ status' = NoStatus
    /\ histQuiet
    /\ UNCHANGED <<lastResult, frameCount, listeners, acquired,
                   switchDisabled>>
    /\ UNCHANGED swVars

SwitchCamera ==
    /\ IF ~cameraActive
       THEN /\ status' = showStatus("notRunning", "", "error")
            /\ returned' = [caller |-> "switchInactive", ok |-> FALSE,
                            threw |-> FALSE, prevFacing |-> facingMode,
                            err |-> ""]
            /\ UNCHANGED <<stream, srcObject, metaPending, cameraActive,
                           scanning, raf, live, pending, facingMode>>
       ELSE /\ BagCardinality(pending) < MaxPending
            /\ facingMode' = Flip(facingMode)
            /\ stopCamera
            /\ startCamera("switch", facingMode, Flip(facingMode))
            /\ status' = NoStatus
            /\ returned' = NoReturn
    /\ lastTick' = NoTick
    /\ UNCHANGED <<lastEmitted, tickNo, allReady, decodeTicks>>
    /\ UNCHANGED <<lastResult, frameCount, listeners, acquired,
                   switchDisabled>>
    /\ UNCHANGED swVars

Remove(s, i) == SubSeq(s, 1, i - 1) \o SubSeq(s, i + 1, Len(s))

\* getUserMedia resolves: lines 109-118, then the caller's continuation
\* (lines 61-62 or 86-87)
GetUserMediaResolve(p) ==
    LET h == acquired + 1
    IN  /\ BagIn(p, pending)
        /\ acquired < MaxAcq
        /\ acquired' = h
        /\ live' = live \cup {h}
        /\ stream' = h
        /\ srcObject' = h
        /\ metaPending' = TRUE
        /\ cameraActive' = TRUE
        /\ listeners' = listeners + 1
        /\ pending' = pending (-) SetToBag({p})
        /\ IF p.caller = "toggle"
           THEN /\ switchDisabled' = FALSE                   \* updateUI(true)
                /\ status' = showStatus("started", "", "success")
           ELSE /\ status' = showStatus("switched", facingMode, "success")
                /\ UNCHANGED switchDisabled
        /\ returned' = [caller |-> p.caller, ok |-> TRUE, threw |-> FALSE,
                        prevFacing |-> p.prevFacing, err |-> ""]
        /\ lastTick' = NoTick
        /\ UNCHANGED <<scanning, facingMode, lastResult, frameCount, raf,
                       lastEmitted, tickNo, allReady, decodeTicks>>
        /\ UNCHANGED swVars

\* getUserMedia rejects: lines 119-122, then the caller's catch
\* (lines 63-66 or 88-93)
GetUserMediaReject(p, err) ==
    /\ BagIn(p, pending)
    /\ cameraActive' = FALSE
    /\ pending' = pending (-) SetToBag({p})
    /\ IF p.caller = "toggle"
       THEN /\ status' = showStatus("startFailed", err, "error")
            /\ UNCHANGED facingMode
       ELSE /\ status' = showStatus("switchFailed", "", "error")
            /\ facingMode' = Flip(facingMode)
    /\ returned' = [caller |-> p.caller, ok |-> FALSE, threw |-> FALSE,
                    prevFacing |-> p.prevFacing, err |-> err]
    /\ lastTick' = NoTick
    /\ UNCHANGED <<stream, srcObject, metaPending, scanning, lastResult,
                   frameCount, listeners, raf, acquired, live,
                   switchDisabled, lastEmitted, tickNo, allReady,
                   decodeTicks>>
    /\ UNCHANGED swVars

\* the video element signals loadedmetadata for its current srcObject: every
\* registered listener runs once and is removed ({ once: true }, line 118)
LoadedMetadata(frame) ==
    /\ srcObject # NoStream
    /\ metaPending
    /\ frameCount + listeners <= MaxFrames
    /\ metaPending' = FALSE
    /\ listeners' = 0
    /\ StoreLoop(RunListeners(Loop, listeners, frame), "meta", FALSE,
                 raf.stale)
    /\ returned' = NoReturn
    /\ UNCHANGED <<stream, cameraActive, facingMode, switchDisabled,
                   srcObject, pending, acquired, live>>
    /\ UNCHANGED swVars

\* one callback handed to requestAnimationFrame runs (line 194)
AnimationFrame(stale, frame) ==
    /\ IF stale THEN raf.stale > 0 ELSE raf.fresh > 0
    /\ (scanning /\ cameraActive) => frameCount < MaxFrames
    /\ LET L == [Loop EXCEPT !.fresh = IF stale THEN @ ELSE @ - 1]
       IN  StoreLoop(scan(L, frame), "raf", stale,
                     IF stale THEN raf.stale - 1 ELSE raf.stale)
    /\ returned' = NoReturn
    /\ UNCHANGED <<stream, cameraActive, facingMode, switchDisabled,
                   srcObject, metaPending, listeners, pending, acquired,
                   live>>
    /\ UNCHANGED swVars

\* constructor, lines 12-36
InitCtl ==
    /\ stream = NoStream
    /\ scanning = FALSE
    /\ cameraActive = FALSE
    /\ facingMode = "environment"
    /\ lastResult = ""
    /\ frameCount = 0
    /\ status = NoStatus
    /\ switchDisabled = TRUE
    /\ srcObject = NoStream
    /\ metaPending = FALSE
    /\ listeners = 0
    /\ raf = [fresh |-> 0, stale |-> 0]
    /\ pending = EmptyBag
    /\ acquired = 0
    /\ live = {}
    /\ returned = NoReturn
    /\ lastTick = NoTick
    /\ lastEmitted = ""
    /\ tickNo = 0
    /\ allReady = TRUE
    /\ decodeTicks = {}

InitSWIdle ==
    /\ swState = "parsed"
    /\ cacheNames = <<>>
    /\ entries = <<>>
    /\ skipWaitingCalled = FALSE
    /\ installLog = "none"
    /\ unreachable = {}
    /\ actPending = {}
    /\ actDeleted = {}
    /\ actKeys = {}
    /\ actCurrent = <<>>
    /\ claimed = FALSE
    /\ fetches = <<>>
    /\ unhandled = FALSE

Init == InitCtl /\ InitSWIdle

Next ==
    \/ ToggleCamera
    \/ SwitchCamera
    \/ \E p \in Calls : GetUserMediaResolve(p)
    \/ \E p \in Calls, e \in Errors : GetUserMediaReject(p, e)
    \/ \E f \in Frames : LoadedMetadata(f)
    \/ \E s \in BOOLEAN, f \in Frames : AnimationFrame(s, f)

Spec == Init /\ [][Next]_vars

\* the browser runs every callback handed to requestAnimationFrame
Tick == \E s \in BOOLEAN, f \in Frames : AnimationFrame(s, f)

\* the loop followed through a bounded number of sessions
NextFair ==
    \/ ToggleCamera
    \/ SwitchCamera
    \/ \E p \in Calls : acquired < MaxFairAcq /\ GetUserMediaResolve(p)
    \/ \E p \in Calls, e \in Errors : GetUserMediaReject(p, e)
    \/ \E f \in Frames : LoadedMetadata(f)
    \/ Tick

SpecFair == Init /\ [][NextFair]_vars /\ WF_vars(Tick)

(***************************************************************************)
(* Service worker                                                          *)
(*                                                                         *)
(* A URL is the sequence of the pieces of its text, so that startsWith is  *)
(* a prefix test.                                                          *)
(***************************************************************************)
CACHE_NAME == "qr-reader-v1"                                  \* line 347
ScopeOrigin == <<"https:", "//", "app.example">>  \* where the worker is served
Resolve(path) == ScopeOrigin \o path

urlsToCache == <<                                             \* lines 348-356
    <<"/", "PWA-QR-Reader/">>,
    <<"/", "PWA-QR-Reader/", "index.html">>,
    <<"/", "PWA-QR-Reader/", "styles.css">>,
    <<"/", "PWA-QR-Reader/", "app.js">>,
    <<"/", "PWA-QR-Reader/", "manifest.json">>,
    <<"/", "PWA-QR-Reader/", "icon-192.png">>,
    <<"/", "PWA-QR-Reader/", "icon-512.png">> >>
ManifestKeys == {Resolve(urlsToCache[i]) : i \in 1..Len(urlsToCache)}

CdnPrefix == <<"https:", "//", "cdn.jsdelivr.net", "/">>      \* line 411
AppJs == Resolve(<<"/", "PWA-QR-Reader/", "app.js">>)
ExtraUrl == Resolve(<<"/", "PWA-QR-Reader/", "extra.png">>)
CdnUrl == CdnPrefix \o <<"npm/jsqr/dist/jsQR.js">>
LookalikeUrl == <<"https:", "//", "cdn.jsdelivr.net.example", "/", "jsQR.js">>
RequestUrls == {AppJs, ExtraUrl, CdnUrl, LookalikeUrl}
Requests == {[url |-> u, method |-> "GET"] : u \in RequestUrls}
                \cup {[url |-> ExtraUrl, method |-> "POST"]}

\* String.prototype.startsWith
startsWith(u, p) == Len(u) >= Len(p) /\ SubSeq(u, 1, Len(p)) = p

\* the test of line 411
IsCdnNever(url) == FALSE

IsCdn(url) == startsWith(url, CdnPrefix)

SameOrigin(url) == startsWith(url, ScopeOrigin \o <<"/">>)

\* responses
NoResp == [status |-> -1, type |-> "none", body |-> ""]
Ok(body) == [status |-> 200, type |-> "basic", body |-> body]
CdnFallback == [status |-> 503, type |-> "default",           \* lines 414-417
                body |-> "offline: the jsQR library cannot be loaded"]
Fallback == [status |-> 503, type |-> "default",              \* lines 450-453
             body |-> "offline"]
\* fetch(request) rejected
NetError == [status |-> -2, type |-> "rejected", body |-> ""]
\* what fetch(request) may settle to
NetOutcomes(url) ==
    IF SameOrigin(url)
    THEN {NetError, Ok("net"), [status |-> 404, type |-> "basic",
                               body |-> "not found"]}
    ELSE {NetError, [status |-> 200, type |-> "cors", body |-> "net"],
          [status |-> 0, type |-> "opaque", body |-> ""]}

Range(f) == {f[i] : i \in DOMAIN f}
Min(S) == CHOOSE m \in S : \A n \in S : m <= n
Drop(f, k) == [x \in DOMAIN f \ {k} |-> f[x]]
Without(sq, n) == SelectSeq(sq, LAMBDA x : x # n)

\* caches.open(name): the store is created when absent
OpenNames(name) ==
    IF name \in Range(cacheNames) THEN cacheNames
    ELSE Append(cacheNames, name)
OpenEntries(name) ==
    IF name \in Range(cacheNames) THEN entries ELSE entries @@ (name :> <<>>)

\* caches.match(request), line 424: the first store, in creation order,
\* that holds the request's key; only GET requests match
Match(req) ==
    LET hits == {i \in 1..Len(cacheNames) :
                    req.url \in DOMAIN entries[cacheNames[i]]}
    IN  IF req.method # "GET" \/ hits = {} THEN NoResp
        ELSE entries[cacheNames[Min(hits)]][req.url]

\* the promise handed to event.waitUntil by the install handler: the
\* .catch of lines 375-377 turns every rejection into a fulfilment
InstallPromise(failed) == "fulfilled"

\* the state the environment gives the worker once that promise settles
AfterInstall(promise) == IF promise = "fulfilled" THEN "installed"
                         ELSE "redundant"

\* install event: caches.open(CACHE_NAME) settles (line 366)
InstallEvent(openOk) ==
    /\ swState = "parsed"
    /\ IF openOk
       THEN /\ swState' = "installing"
            /\ cacheNames' = OpenNames(CACHE_NAME)
            /\ entries' = OpenEntries(CACHE_NAME)
            /\ UNCHANGED installLog
       ELSE /\ swState' = AfterInstall(InstallPromise(TRUE))
            /\ installLog' = "error"
            /\ UNCHANGED <<cacheNames, entries>>
    /\ UNCHANGED <<skipWaitingCalled, unreachable, actPending, actDeleted,
                   actKeys, actCurrent, claimed, fetches, unhandled>>
    /\ UNCHANGED ctlVars

\* the sets of manifest URLs that fail to load which are explored
FailureSets == {{}} \cup {{k} : k \in ManifestKeys} \cup {ManifestKeys}

\* cache.addAll(urlsToCache) settles (lines 369-377): all URLs are stored,
\* or none when one of them cannot be fetched
AddAllDone(failed) ==
    /\ swState = "installing"
    /\ unreachable' = failed
    /\ IF failed = {}
       THEN /\ entries' = [entries EXCEPT ![CACHE_NAME] =
                             [k \in ManifestKeys |-> Ok("net")] @@ @]
            /\ skipWaitingCalled' = TRUE
            /\ installLog' = "done"
       ELSE /\ installLog' = "error"
            /\ UNCHANGED <<entries, skipWaitingCalled>>
    /\ swState' = AfterInstall(InstallPromise(failed # {}))
    /\ UNCHANGED <<cacheNames, actPending, actDeleted, actKeys, actCurrent,
                   claimed, fetches, unhandled>>
    /\ UNCHANGED ctlVars

\* the test of line 392
StaleAny(name) == TRUE

Stale(name) == name # CACHE_NAME

\* activate event: caches.keys() and one caches.delete per stale name
\* (lines 389-397)
ActivateEvent ==
    /\ swState = "installed"
    /\ swState' = "activating"
    /\ actKeys' = Range(cacheNames)
    /\ actPending' = {n \in Range(cacheNames) : Stale(n)}
    /\ actDeleted' = {}
    /\ actCurrent' = IF CACHE_NAME \in Range(cacheNames)
                     THEN entries[CACHE_NAME] ELSE <<>>
    /\ UNCHANGED <<cacheNames, entries, skipWaitingCalled, installLog,
                   unreachable, claimed, fetches, unhandled>>
    /\ UNCHANGED ctlVars

\* one caches.delete(name) completes
DeleteDone(n) ==
    /\ swState = "activating"
    /\ n \in actPending
    /\ actPending' = actPending \ {n}
    /\ actDeleted' = actDeleted \cup {n}
    /\ cacheNames' = Without(cacheNames, n)
    /\ entries' = Drop(entries, n)
    /\ UNCHANGED <<swState, skipWaitingCalled, installLog, unreachable,
                   actKeys, actCurrent, claimed, fetches, unhandled>>
    /\ UNCHANGED ctlVars

\* Promise.all has resolved: self.clients.claim() (lines 398-401)
ActivateClaim ==
    /\ swState = "activating"
    /\ actPending = {}
    /\ claimed' = TRUE
    /\ swState' = "activated"
    /\ UNCHANGED <<cacheNames, entries, skipWaitingCalled, installLog,
                   unreachable, actPending, actDeleted, actKeys, actCurrent,
                   fetches, unhandled>>
    /\ UNCHANGED ctlVars

\* fetch event, lines 409-424, up to the first pending promise
FetchEvent(req) ==
    /\ swState = "activated"
    /\ Len(fetches) < MaxFetches
    /\ fetches' = Append(fetches,
          [req |-> req,
           phase |-> IF IsCdn(req.url) THEN "cdn" ELSE "match",
           via |-> "none", net |-> NoResp, resp |-> NoResp,
           put |-> "none"])
    /\ UNCHANGED <<swState, cacheNames, entries, skipWaitingCalled,
                   installLog, unreachable, actPending, actDeleted, actKeys,
                   actCurrent, claimed, unhandled>>
    /\ UNCHANGED ctlVars

fetchFrame == /\ UNCHANGED <<swState, skipWaitingCalled, installLog,
                             unreachable, actPending, actDeleted, actKeys,
                             actCurrent, claimed>>
              /\ UNCHANGED ctlVars

\* fetch(event.request) of the CDN branch settles (lines 413-418)
CdnDone(i, out) ==
    /\ fetches[i].phase = "cdn"
    /\ out \in NetOutcomes(fetches[i].req.url)
    /\ fetches' = [fetches EXCEPT ![i] =
          [@ EXCEPT !.phase = "done", !.net = out,
                    !.via = IF out = NetError THEN "fallback" ELSE "network",
                    !.resp = IF out = NetError THEN CdnFallback ELSE out]]
    /\ UNCHANGED <<cacheNames, entries, unhandled>>
    /\ fetchFrame

\* caches.match(event.request) settles (lines 424-429, 447-454)
MatchDone(i, ok) ==
    /\ fetches[i].phase = "match"
    /\ LET hit == Match(fetches[i].req)
       IN  fetches' = [fetches EXCEPT ![i] =
              IF ~ok
              THEN [@ EXCEPT !.phase = "done", !.via = "fallback",
                             !.resp = Fallback]
              ELSE IF hit # NoResp
              THEN [@ EXCEPT !.phase = "done", !.via = "cache",
                             !.resp = hit]
              ELSE [@ EXCEPT !.phase = "net"]]
    /\ UNCHANGED <<cacheNames, entries, unhandled>>
    /\ fetchFrame

\* the test of line 434, negated
CacheableAnyStatus(r) == r.type = "basic"

Cacheable(r) == r.status = 200 /\ r.type = "basic"

\* lines 439-442: the write that is started for a network response
StartPutNever(r) == "none"

StartPut(r) == IF Cacheable(r) THEN "open" ELSE "none"

\* fetch(event.request) of the miss branch settles (lines 432-454); the
\* promise of caches.open(...).then(...) is not returned, so respondWith
\* settles in this step
NetDone(i, out) ==
    /\ fetches[i].phase = "net"
    /\ out \in NetOutcomes(fetches[i].req.url)
    /\ fetches' = [fetches EXCEPT ![i] =
          IF out = NetError
          THEN [@ EXCEPT !.phase = "done", !.net = out, !.via = "fallback",
                         !.resp = Fallback]
          ELSE [@ EXCEPT !.phase = "done", !.net = out, !.via = "network",
                         !.resp = out, !.put = StartPut(out)]]
    /\ UNCHANGED <<cacheNames, entries, unhandled>>
    /\ fetchFrame

\* caches.open(CACHE_NAME) of line 440 settles
PutOpenDone(i, ok) ==
    /\ fetches[i].put = "open"
    /\ IF ok
       THEN /\ cacheNames' = OpenNames(CACHE_NAME)
            /\ entries' = OpenEntries(CACHE_NAME)
            /\ fetches' = [fetches EXCEPT ![i].put = "put"]
            /\ UNCHANGED unhandled
       ELSE /\ fetches' = [fetches EXCEPT ![i].put = "failed"]
            /\ unhandled' = TRUE
            /\ UNCHANGED <<cacheNames, entries>>
    /\ fetchFrame

\* cache.put(event.request, responseToCache) of line 441 settles; it
\* rejects for a request that is not a GET
PutDone(i, ok) ==
    /\ fetches[i].put = "put"
    /\ ok => fetches[i].req.method = "GET"
    /\ IF ok
       THEN /\ entries' = [entries EXCEPT ![CACHE_NAME] =
                             (fetches[i].req.url :> fetches[i].resp) @@ @]
            /\ fetches' = [fetches EXCEPT ![i].put = "stored"]
            /\ UNCHANGED unhandled
       ELSE /\ fetches' = [fetches EXCEPT ![i].put = "failed"]
            /\ unhandled' = TRUE
            /\ UNCHANGED entries
    /\ UNCHANGED cacheNames
    /\ fetchFrame

\* nothing of the event is left pending
FetchFinished(i) ==
    /\ fetches[i].phase = "done"
    /\ fetches[i].put \in {"none", "stored", "failed"}
    /\ fetches' = Remove(fetches, i)
    /\ UNCHANGED <<cacheNames, entries, unhandled>>
    /\ fetchFrame

\* a later version of this worker (the same handlers with another
\* CACHE_NAME, line 347) is installing while this one controls the pages:
\* its install handler opens and fills its own store (lines 365-370)
NewerName == "qr-reader-v2"
NewerInstall ==
    /\ swState = "activated"
    /\ NewerName \notin Range(cacheNames)
    /\ cacheNames' = Append(cacheNames, NewerName)
    /\ entries' = entries @@ (NewerName :> (AppJs :> Ok("new")))
    /\ UNCHANGED <<fetches, unhandled>>
    /\ fetchFrame

\* stores left by earlier versions of the worker, oldest first
OldNames == <<"qr-reader-v0", "other-cache", CACHE_NAME>>
OldContents == {<<>>, (AppJs :> Ok("old"))}
RECURSIVE Pick(_, _)
Pick(sq, keep) ==
    IF sq = <<>> THEN <<>>
    ELSE IF Head(sq) \in keep THEN <<Head(sq)>> \o Pick(Tail(sq), keep)
    ELSE Pick(Tail(sq), keep)

InitSW ==
    /\ swState = "parsed"
    /\ \E keep \in SUBSET Range(OldNames) :
          /\ cacheNames = Pick(OldNames, keep)
          /\ entries \in [keep -> OldContents]
    /\ skipWaitingCalled = FALSE
    /\ installLog = "none"
    /\ unreachable = {}
    /\ actPending = {}
    /\ actDeleted = {}
    /\ actKeys = {}
    /\ actCurrent = <<>>
    /\ claimed = FALSE
    /\ fetches = <<>>
    /\ unhandled = FALSE

InitAllSW == InitCtl /\ InitSW

NextSW ==
    \/ \E ok \in BOOLEAN : InstallEvent(ok)
    \/ \E f \in FailureSets : AddAllDone(f)
    \/ ActivateEvent
    \/ \E n \in Range(OldNames) : DeleteDone(n)
    \/ ActivateClaim
    \/ NewerInstall
    \/ \E r \in Requests : FetchEvent(r)
    \/ \E i \in 1..MaxFetches, o \in UNION {NetOutcomes(u) : u \in RequestUrls} :
          i <= Len(fetches) /\ CdnDone(i, o)
    \/ \E i \in 1..MaxFetches, ok \in BOOLEAN :
          i <= Len(fetches) /\ MatchDone(i, ok)
    \/ \E i \in 1..MaxFetches, o \in UNION {NetOutcomes(u) : u \in RequestUrls} :
          i <= Len(fetches) /\ NetDone(i, o)
    \/ \E i \in 1..MaxFetches, ok \in BOOLEAN :
          i <= Len(fetches) /\ PutOpenDone(i, ok)
    \/ \E i \in 1..MaxFetches, ok \in BOOLEAN :
          i <= Len(fetches) /\ PutDone(i, ok)
    \/ \E i \in 1..MaxFetches : i <= Len(fetches) /\ FetchFinished(i)

SpecSW == InitAllSW /\ [][NextSW]_vars

(***************************************************************************)
(* Properties of QRCodeReader                                              *)
(***************************************************************************)

\* C1: a payload handed to handleQRCode produces a result event if and only
\* if it differs from the payload of the most recent result event (the empty
\* string before the first one), and lastResult always is that payload:
\* stopping and starting the camera never clears it.
C1_Dedup ==
    /\ lastResult = lastEmitted
    /\ \A i \in 1..Len(lastTick.calls) :
          lastTick.calls[i].emitted
              <=> (lastTick.calls[i].data # lastTick.calls[i].prev)

\* a payload read again in a second session is suppressed
C1_Witness ==
    /\ acquired = 2
    /\ lastTick.calls # <<>>
    /\ lastTick.calls[1].data = "A"
    /\ ~lastTick.calls[1].emitted

\* C2: every handle that was acquired and whose tracks were not stopped is
\* the handle held in this.stream.
C2_NoLeak == \A h \in live : h = stream

\* C3: when a switchCamera() call completes with a failed acquisition,
\* facingMode is what it was before that call, cameraActive is false and no
\* handle is held.
C3_SwitchFailRestores ==
    (returned.caller = "switch" /\ ~returned.ok)
        => /\ facingMode = returned.prevFacing
           /\ ~cameraActive
           /\ stream = NoStream

\* C4: a callback scheduled before a stopCamera() that runs after it does
\* not decode, emits nothing and does not reschedule itself.
C4_StaleTickInert ==
    lastTick.stale
        => /\ lastTick.ran = 0
           /\ lastTick.decoded = 0
           /\ lastTick.calls = <<>>
           /\ lastTick.resched = 0

\* C5: when a toggleCamera() call made while cameraActive was false
\* completes with a failed acquisition, no exception has escaped, the status
\* is the error carrying the failure message, and cameraActive is false, no
\* handle is held and scanning is false.
C5_ToggleFailConsistent ==
    (returned.caller = "toggle" /\ ~returned.ok)
        => /\ ~returned.threw
           /\ status = showStatus("startFailed", returned.err, "error")
           /\ ~cameraActive
           /\ stream = NoStream
           /\ ~scanning

\* C6: counting the executions of the body of scan() from construction (the
\* call made by startScanning is tick 1) and with a frame ready on every
\* tick, decode work has run, among the first 9 ticks, exactly on those of
\* ticks 3, 6 and 9 reached so far: on all three, and on no other tick, once
\* 9 ticks have run.
C6_Sampling ==
    allReady
        => /\ decodeTicks \cap 1..9 = {t \in {3, 6, 9} : t <= tickNo}
           /\ tickNo >= 9 => Cardinality(decodeTicks \cap 1..9) = 3

\* nine ticks of one uninterrupted session, a frame ready on each
C6_Witness ==
    /\ tickNo = 9
    /\ acquired = 1
    /\ raf = [fresh |-> 1, stale |-> 0]
    /\ allReady
    /\ decodeTicks = {3, 6, 9}

\* the controller holds nothing and its loop is off
Stopped(S) ==
    /\ S.stream = NoStream
    /\ S.srcObject = NoStream
    /\ ~S.cameraActive
    /\ ~S.scanning

\* C12: stopCamera() is idempotent from every reachable state: after one
\* call the handle is released and null, the output is detached and both
\* flags are false; a call on a stopped controller changes nothing; a second
\* call changes nothing and stops no track; a handle that is about to be
\* stopped has not been stopped before.
C12_StopIdempotent ==
    LET once == stopCameraOn(Cam)
        twice == stopCameraOn(once)
    IN  /\ Stopped(once)
        /\ TracksStopped(Cam) \cap once.live = {}
        /\ twice = once
        /\ TracksStopped(once) = {}
        /\ Stopped(Cam) => once = Cam
        /\ stream # NoStream => stream \in live

\* a running session has just been stopped by toggleCamera()
C12_Witness ==
    /\ status.message = "stopped"
    /\ Stopped(Cam)
    /\ acquired > 0
    /\ raf.stale > 0
    /\ stopCameraOn(Cam) = Cam

\* C13: the loop's running flag is set only while a session is active.
C13_ScanningImpliesActive == scanning => cameraActive

\* C14: cameraActive is true exactly when this.stream holds a handle whose
\* tracks have not been stopped.
C14_ActiveIffHandle ==
    cameraActive <=> (stream # NoStream /\ stream \in live)

\* C15 as stated: when the loadedmetadata listener starts the loop, running
\* is true and frameCount was reset, so that it counts only the passes of
\* scan() made for this session and the session's first pass decodes nothing.
C15_StartResets ==
    lastTick.kind = "meta"
        => /\ scanning
           /\ frameCount <= lastTick.ran
           /\ lastTick.decoded = 0

\* C15 as amended: starting the loop sets running to true and leaves
\* frameCount as the earlier sessions left it, each pass of scan() adding
\* one; a decode made while starting happens at a count that is a multiple
\* of SamplePeriod.
C15_StartKeepsCount ==
    [][lastTick'.kind = "meta"
          => /\ scanning'
             /\ frameCount' = frameCount + lastTick'.ran
             /\ lastTick'.decoded > 0
                   => \E c \in (frameCount + 1)..frameCount' :
                          c % SamplePeriod = 0]_vars

\* the first pass of a second session decodes: the count was 2 at its start
C15_Witness ==
    /\ lastTick.kind = "meta"
    /\ acquired = 2
    /\ lastTick.ran = 1
    /\ lastTick.decoded = 1
    /\ frameCount = SamplePeriod
    /\ scanning

\* C16: at most one callback of the loop is pending in
\* requestAnimationFrame, and one loadedmetadata event starts the loop at
\* most once.
C16_SingleLoop ==
    /\ raf.fresh + raf.stale <= 1
    /\ lastTick.kind = "meta" => lastTick.ran <= 1

\* the loop is on and one of its callbacks is pending
Running == scanning /\ cameraActive /\ raf.fresh + raf.stale > 0

\* the last task made a pass of scan() at a count that is sampled
WorkTick ==
    /\ lastTick.ran > 0
    /\ \E c \in (frameCount - lastTick.ran + 1)..frameCount :
          c % SamplePeriod = 0

\* C17: every pass of scan() that runs with scanning and cameraActive both
\* true requests exactly one animation frame, whatever the count, the frame
\* and the payload; hence, callbacks being run fairly, a running loop that
\* is not stopped reaches a sampled pass (as long as MaxFrames leaves room
\* for SamplePeriod more passes).
C17_LoopKeepsRunning ==
    /\ [](/\ lastTick.resched = lastTick.ran
          /\ lastTick.kind = "raf" => lastTick.ran <= 1
          /\ lastTick.ran > 0 => raf.fresh > 0)
    /\ (Running /\ frameCount + SamplePeriod <= MaxFrames)
           ~> (WorkTick \/ ~(scanning /\ cameraActive))

\* a pass at a count that is not sampled has requested the next frame
C17_Witness ==
    /\ lastTick.kind = "raf"
    /\ lastTick.ran = 1
    /\ lastTick.resched = 1
    /\ lastTick.decoded = 0
    /\ frameCount % SamplePeriod # 0
    /\ Running

\* C20: a switchCamera() call made while cameraActive is false shows the
\* error status and changes nothing else; a getUserMedia call on behalf of
\* switchCamera() is started, and facingMode is flipped by a click, only
\* while cameraActive is true.
C20_SwitchInactiveNoOp ==
    [][/\ returned'.caller = "switchInactive"
            => /\ ~cameraActive
               /\ status' = showStatus("notRunning", "", "error")
               /\ UNCHANGED <<facingMode, stream, cameraActive, scanning,
                              frameCount, lastResult, pending, srcObject,
                              metaPending, listeners, raf, live, acquired,
                              switchDisabled>>
       /\ (\E p \in Calls : /\ p.caller = "switch"
                            /\ CopiesIn(p, pending') > CopiesIn(p, pending))
            => cameraActive
       /\ (facingMode' # facingMode /\ returned'.caller = "none")
            => cameraActive]_vars

\* switchCamera() was called after the session had been stopped
C20_Witness ==
    /\ returned.caller = "switchInactive"
    /\ status = showStatus("notRunning", "", "error")
    /\ ~cameraActive
    /\ acquired > 0
    /\ stream = NoStream
    /\ pending = EmptyBag

(***************************************************************************)
(* Properties of the service worker                                        *)
(***************************************************************************)
Holds(name, key) ==
    name \in Range(cacheNames) /\ key \in DOMAIN entries[name]

\* C7: once the install handler has settled with at least one manifest URL
\* unreachable, the store CACHE_NAME serves none of the other manifest
\* URLs, skipWaiting was not called and the install did not succeed.
C7_InstallAllOrNothing ==
    (swState \in {"installed", "redundant"} /\ unreachable # {})
        => /\ \A k \in ManifestKeys \ unreachable : ~Holds(CACHE_NAME, k)
           /\ ~skipWaitingCalled
           /\ swState = "redundant"

\* C8: the activate handler deletes exactly the stores whose name differs
\* from CACHE_NAME and leaves a store named CACHE_NAME as it was;
\* clients.claim() is called only when all those deletions have completed.
C8_Activate ==
    /\ swState \in {"activating", "activated"}
          => /\ actDeleted \cup actPending
                    = {n \in actKeys : n # CACHE_NAME}
             /\ actDeleted \cap actPending = {}
             /\ \A n \in actDeleted : n \notin Range(cacheNames)
    /\ swState = "activating"
          => /\ \A n \in actPending : n \in Range(cacheNames)
             /\ CACHE_NAME \in actKeys
                    => /\ CACHE_NAME \in Range(cacheNames)
                       /\ entries[CACHE_NAME] = actCurrent
    /\ claimed
          => /\ actPending = {}
             /\ \A n \in actKeys \cap Range(cacheNames) : n = CACHE_NAME

\* two stale stores were deleted, the current one is left, claim was called
C8_Witness ==
    /\ claimed
    /\ fetches = <<>>
    /\ actDeleted = {"qr-reader-v0", "other-cache"}
    /\ cacheNames = <<CACHE_NAME>>
    /\ entries[CACHE_NAME] = actCurrent
    /\ AppJs \in DOMAIN actCurrent

\* a handled request that missed the cache, is not for the decoder origin
\* and got a status-200 basic response from the network
MissNet200(f) ==
    /\ f.phase = "done"
    /\ f.via = "network"
    /\ ~startsWith(f.req.url, CdnPrefix)
    /\ f.net.status = 200
    /\ f.net.type = "basic"

C10_CdnBypass ==
    \A i \in 1..Len(fetches) :
        startsWith(fetches[i].req.url, CdnPrefix)
            => /\ fetches[i].phase \in {"cdn", "done"}
               /\ fetches[i].put = "none"
               /\ fetches[i].via \in {"none", "network", "fallback"}
               /\ fetches[i].phase = "done"
                     => IF fetches[i].net = NetError
                        THEN /\ fetches[i].via = "fallback"
                             /\ fetches[i].resp.status = 503
                             /\ Len(fetches[i].resp.body) > 0
                        ELSE /\ fetches[i].via = "network"
                             /\ fetches[i].resp = fetches[i].net

\* the decoder library was requested while the network was down
C10_Witness ==
    \E i \in 1..Len(fetches) :
        /\ fetches[i].req.url = CdnUrl
        /\ fetches[i].phase = "done"
        /\ fetches[i].net = NetError
        /\ fetches[i].resp = CdnFallback

\* C11: every handled fetch event is answered with a response and no promise
\* of the handler is left rejected without a handler, whichever of the
\* lookup, the network fetch, caches.open and cache.put fails.
C11_FailuresContained ==
    /\ ~unhandled
    /\ \A i \in 1..Len(fetches) :
          fetches[i].phase = "done" => fetches[i].resp # NoResp

\* C18: a response served from the cache is the entry the store CACHE_NAME
\* holds for the request, taken without a network fetch and without a store
\* write; an entry held only by a store of another name is not served.
C18_CurrentStoreOnly ==
    \A i \in 1..Len(fetches) :
        fetches[i].via = "cache"
            => /\ fetches[i].phase = "done"
               /\ fetches[i].net = NoResp
               /\ fetches[i].put = "none"
               /\ Holds(CACHE_NAME, fetches[i].req.url)
               /\ fetches[i].resp = entries[CACHE_NAME][fetches[i].req.url]

\* this step puts an entry into a store of this worker, or changes one
StoreWrite ==
    \E n \in Range(cacheNames') \ {NewerName} :
        \E k \in DOMAIN entries'[n] :
            ~ /\ n \in Range(cacheNames)
              /\ k \in DOMAIN entries[n]
              /\ entries[n][k] = entries'[n][k]

\* the handling of a request has ended without a status-200 basic response
\* from the network: what was returned, and that no write was started
PassedThrough(f) ==
    (f.phase = "done" /\ ~MissNet200(f))
        => /\ f.put = "none"
           /\ f.via = "network" => f.resp = f.net
           /\ f.via = "fallback" => f.resp.status = 503

\* C19: a step writes into a store only when cache.addAll of the install
\* handler completes, or when the cache.put started for a miss that the
\* network answered with a status-200 basic response completes, and then it
\* writes that response under that request into the store CACHE_NAME; any
\* other network outcome is returned as it is and no write is started for it.
C19_LazyOnMiss ==
    [][/\ StoreWrite
            => \/ swState = "installing" /\ installLog' = "done"
               \/ \E i \in 1..Len(fetches) :
                     /\ MissNet200(fetches[i])
                     /\ fetches[i].put = "put"
                     /\ fetches'[i].put = "stored"
                     /\ entries' = [entries EXCEPT ![CACHE_NAME] =
                           (fetches[i].req.url :> fetches[i].net) @@ @]
       /\ \A i \in 1..Len(fetches') : PassedThrough(fetches'[i])]_vars

\* a status-404 response was returned as it came and nothing was stored
C19_Witness ==
    \E i \in 1..Len(fetches) :
        /\ fetches[i].phase = "done"
        /\ fetches[i].via = "network"
        /\ fetches[i].net.status = 404
        /\ fetches[i].resp = fetches[i].net
        /\ fetches[i].put = "none"
        /\ ~Holds(CACHE_NAME, fetches[i].req.url)

====
